---- MODULE Spec2Model ----
(***************************************************************************)
(* Model of contec_bot.py: a Streamlit chat bot that answers a question    *)
(* with the answer of the closest known question and lets an authenticated *)
(* trainer teach it the answer of an unknown one.                          *)
(*                                                                         *)
(* A text is a sequence of character codes (ASCII), so that lower-casing   *)
(* and the similarity ratio are computed, not assumed.  One action is one  *)
(* run of display_chat() triggered by one widget interaction, up to and    *)
(* including the re-run that st.rerun() starts (which has no trigger and   *)
(* changes nothing).                                                       *)
(***************************************************************************)
EXTENDS Integers, Sequences, FiniteSets, TLC

VARIABLES
    file,               \* the persistent medium knowledge_base.json
    secrets,            \* st.secrets
    chat_active,        \* st.session_state.chat_active, per session
    messages,           \* st.session_state.messages, per session
    awaiting_answer,    \* st.session_state.awaiting_answer, per session
    current_question,   \* st.session_state.current_question, per session
    first_interaction,  \* st.session_state.first_interaction, per session
    authenticated,      \* st.session_state.authenticated, per session
    event,              \* history: the widget interaction of the last run
    committed,          \* history: the pairs committed by training
    run,                \* the run of a session between its load and its save
    overlapped          \* history: two runs had loaded before either saved

vars == <<file, secrets, chat_active, messages, awaiting_answer,
          current_question, first_interaction, authenticated, event,
          committed, run, overlapped>>

run_vars == <<run, overlapped>>

session_vars == <<chat_active, messages, awaiting_answer, current_question,
                  first_interaction, authenticated>>

(***************************************************************************)
(* Bounds.                                                                 *)
(***************************************************************************)
MaxMessages == 6
MaxKB == 2

(***************************************************************************)
(* Texts.                                                                  *)
(***************************************************************************)
EmptyStr == << >>
None == << -1 >>

STR_quit == << 113, 117, 105, 116 >>
STR_Quit == << 81, 117, 105, 116 >>
STR_hi == << 104, 105 >>
STR_HI == << 72, 73 >>
STR_hit == << 104, 105, 116 >>
STR_A1 == << 65, 49 >>
STR_A2 == << 65, 50 >>
STR_pw == << 112, 119 >>
STR_bad == << 120 >>

Prompts == { STR_quit, STR_Quit, STR_hi, STR_HI, STR_hit }
Answers == { EmptyStr, STR_A1, STR_A2 }
Passwords == { STR_pw, STR_bad }

MSG_goodbye == "Goodbye! Please refresh the page to start a new conversation."
MSG_unknown == "I don't know the answer. Would you like to train me? (Authenticated users only)"
MSG_learned == "Thank you! I've learned: '"
MSG_continue == "Okay, let's continue our conversation."

\* A message: role and content, the content as <<literal, text, literal>>.
Message(role, pre, text, post) ==
    [role |-> role, content |-> << pre, text, post >>]

lower(s) ==
    [i \in 1..Len(s) |-> IF s[i] >= 65 /\ s[i] <= 90 THEN s[i] + 32 ELSE s[i]]

RECURSIVE StrLess(_, _)
StrLess(x, y) ==
    IF y = << >> THEN FALSE
    ELSE IF x = << >> THEN TRUE
    ELSE IF x[1] /= y[1] THEN x[1] < y[1]
    ELSE StrLess(Tail(x), Tail(y))

(***************************************************************************)
(* difflib.SequenceMatcher(None, a, b).ratio() as used by                  *)
(* get_close_matches: no junk, texts shorter than the autojunk limit.      *)
(* Positions are 1-based, the upper ends exclusive.                        *)
(***************************************************************************)
RECURSIVE RunLen(_, _, _, _, _, _)
RunLen(a, b, i, j, ahi, bhi) ==
    IF i < ahi /\ j < bhi /\ a[i] = b[j]
    THEN 1 + RunLen(a, b, i + 1, j + 1, ahi, bhi)
    ELSE 0

find_longest_match(a, b, alo, ahi, blo, bhi) ==
    LET cands == (alo..(ahi - 1)) \X (blo..(bhi - 1))
        size(p) == RunLen(a, b, p[1], p[2], ahi, bhi)
        longest == { p \in cands : \A r \in cands : size(r) <= size(p) }
        first == CHOOSE p \in longest :
                    \A r \in longest :
                        p[1] < r[1] \/ (p[1] = r[1] /\ p[2] <= r[2])
    IN  IF cands = {} THEN << alo, blo, 0 >>
        ELSE IF size(first) = 0 THEN << alo, blo, 0 >>
        ELSE << first[1], first[2], size(first) >>

RECURSIVE matching(_, _, _, _, _, _)
matching(a, b, alo, ahi, blo, bhi) ==
    LET m == find_longest_match(a, b, alo, ahi, blo, bhi)
        i == m[1]
        j == m[2]
        k == m[3]
    IN  IF k = 0 THEN 0
        ELSE k
             + (IF alo < i /\ blo < j
                THEN matching(a, b, alo, i, blo, j) ELSE 0)
             + (IF i + k < ahi /\ j + k < bhi
                THEN matching(a, b, i + k, ahi, j + k, bhi) ELSE 0)

\* ratio() as the fraction <<numerator, denominator>>.
ratio(a, b) ==
    LET length == Len(a) + Len(b)
    IN  IF length = 0 THEN << 1, 1 >>
        ELSE << 2 * matching(a, b, 1, Len(a) + 1, 1, Len(b) + 1), length >>

CutoffNum == 6
CutoffDen == 10

\* r >= cutoff
AtLeastCutoff(r) == r[1] * CutoffDen >= CutoffNum * r[2]

\* the order of the tuples (score, x) that heapq.nlargest compares
ScoredLess(r1, x1, r2, x2) ==
    \/ r1[1] * r2[2] < r2[1] * r1[2]
    \/ r1[1] * r2[2] = r2[1] * r1[2] /\ StrLess(x1, x2)

\* difflib.get_close_matches(word, possibilities, n=1, cutoff=0.6):
\* the ratio bounds real_quick_ratio and quick_ratio never reject what
\* ratio accepts.
get_close_matches(word, possibilities) ==
    LET idx == { i \in DOMAIN possibilities :
                    AtLeastCutoff(ratio(possibilities[i], word)) }
        best == CHOOSE i \in idx :
                    \A k \in idx :
                        ~ ScoredLess(ratio(possibilities[i], word),
                                     possibilities[i],
                                     ratio(possibilities[k], word),
                                     possibilities[k])
    IN  IF idx = {} THEN << >> ELSE << possibilities[best] >>

find_best_match(user_question, questions) ==
    LET matches == get_close_matches(user_question, questions)
    IN  IF matches /= << >> THEN matches[1] ELSE None

\* mutant: the last matching entry wins
get_answer_last(question, knowledge_base) ==
    LET qs == knowledge_base.questions
        hits == { i \in DOMAIN qs : lower(qs[i].question) = lower(question) }
    IN  IF hits = {} THEN None
        ELSE qs[CHOOSE i \in hits : \A k \in hits : i >= k].answer

\* mutant: the questions are compared case-sensitively
get_answer_exact(question, knowledge_base) ==
    LET qs == knowledge_base.questions
        hits == { i \in DOMAIN qs : qs[i].question = question }
    IN  IF hits = {} THEN None
        ELSE qs[CHOOSE i \in hits : \A k \in hits : i <= k].answer

get_answer(question, knowledge_base) ==
    LET qs == knowledge_base.questions
        hits == { i \in DOMAIN qs : lower(qs[i].question) = lower(question) }
    IN  IF hits = {} THEN None
        ELSE qs[CHOOSE i \in hits : \A k \in hits : i <= k].answer

(***************************************************************************)
(* The persistent medium.                                                  *)
(***************************************************************************)
EmptyKB == [questions |-> << >>]

Entry(q, a) == [question |-> q, answer |-> a]

FileMissing == [state |-> "missing", data |-> EmptyKB]
FileCorrupt == [state |-> "corrupt", data |-> EmptyKB]

\* mutant: what can still be read of an unparseable file is used
load_knowledge_base_lenient(f) == f.data

load_knowledge_base(f) ==
    IF f.state = "valid" THEN f.data ELSE EmptyKB

save_knowledge_base(data) ==
    [state |-> "valid", data |-> data]

InitialStores ==
    { FileMissing, FileCorrupt,
      save_knowledge_base(EmptyKB),
      save_knowledge_base([questions |-> << Entry(STR_HI, STR_A1) >>]),
      save_knowledge_base([questions |-> << Entry(STR_quit, STR_A2) >>]) }

InitialSecrets ==
    { [configured |-> TRUE, TRAINER_PASSWORD |-> STR_pw],
      [configured |-> FALSE, TRAINER_PASSWORD |-> EmptyStr] }

(***************************************************************************)
(* Sessions.                                                               *)
(***************************************************************************)
Sessions == DOMAIN chat_active

NoEvent == [op |-> "none", s |-> 0, text |-> EmptyStr]

\* a run that is not between its load and its save
Idle == [pc |-> "idle", knowledge_base |-> EmptyKB, new_answer |-> EmptyStr]

InitWith(S, stores, secs) ==
    /\ file \in stores
    /\ secrets \in secs
    /\ chat_active = [s \in S |-> TRUE]
    /\ messages = [s \in S |-> << >>]
    /\ awaiting_answer = [s \in S |-> FALSE]
    /\ current_question = [s \in S |-> EmptyStr]
    /\ first_interaction = [s \in S |-> TRUE]
    /\ authenticated = [s \in S |-> FALSE]
    /\ event = NoEvent
    /\ committed = {}
    /\ run = [s \in S |-> Idle]
    /\ overlapped = FALSE

InitSessions(S) == InitWith(S, InitialStores, InitialSecrets)

Init == InitSessions({1})

RECURSIVE TotalMessages(_)
TotalMessages(S) ==
    IF S = {} THEN 0
    ELSE LET s == CHOOSE x \in S : TRUE
         IN  Len(messages[s]) + TotalMessages(S \ {s})

\* the runs that have loaded and not yet saved
InFlight == { t \in Sessions : run[t].pc = "loaded" }

\* the transcripts of all sessions together, with the confirmations of the
\* runs in flight, stay within the bound
Room(s, n) ==
    TotalMessages(Sessions) + Cardinality(InFlight) + n <= MaxMessages

\* a session runs one script at a time
NotRunning(s) == run[s].pc = "idle"

\* mutant: the flag is raised after training
AwaitingAfterTraining_true == TRUE

\* "st.session_state.awaiting_answer = False", lines 214 and 223
AwaitingAfterTraining == FALSE

\* mutant: every actor passes the password check
check_password_open(s) == TRUE

\* check_password() in a run in which Authenticate is not clicked
check_password(s) == authenticated[s]

\* mutant: the form is shown without a pending question
TrainingFormShown_nopending(s) ==
    /\ chat_active[s]
    /\ check_password(s)

\* the condition under which the training form is shown, line 195
TrainingFormShown(s) ==
    /\ chat_active[s]
    /\ current_question[s] /= EmptyStr
    /\ check_password(s)

\* mutant: "if submit:" without the test of the answer
SubmitAccepted_any(new_answer) == TRUE

\* "if submit and new_answer", the submit button being the one clicked
SubmitAccepted(new_answer) == new_answer /= EmptyStr

\* mutant: the knowledge base is saved as it was loaded
TrainedKB_dropped(knowledge_base, question, new_answer) == knowledge_base

\* mutant: the new pair replaces the knowledge base
TrainedKB_replace(knowledge_base, question, new_answer) ==
    [knowledge_base EXCEPT !.questions = << Entry(question, new_answer) >>]

\* mutant: the question is stored lower-cased
TrainedKB_lowerq(knowledge_base, question, new_answer) ==
    [knowledge_base EXCEPT
        !.questions = Append(@, Entry(lower(question), new_answer))]

\* mutant: the new pair is put in front
TrainedKB_front(knowledge_base, question, new_answer) ==
    [knowledge_base EXCEPT !.questions = << Entry(question, new_answer) >> \o @]

\* knowledge_base["questions"].append({...})
TrainedKB(knowledge_base, question, new_answer) ==
    [knowledge_base EXCEPT !.questions = Append(@, Entry(question, new_answer))]

\* mutant: the keyword is compared as typed
IsQuit_exact(prompt) == prompt = STR_quit

\* "prompt.lower() == 'quit'"
IsQuit(prompt) == lower(prompt) = STR_quit

\* mutant: the pending question is stored lower-cased
PendingOf_lower(prompt) == lower(prompt)

\* "st.session_state.current_question = prompt"
PendingOf(prompt) == prompt

(***************************************************************************)
(* A text is sent through the chat input.                                  *)
(***************************************************************************)
Utterance(s, prompt) ==
    /\ chat_active[s] => Room(s, 2)
    /\ NotRunning(s)
    /\ UNCHANGED run_vars
    /\ event' = [op |-> "utterance", s |-> s, text |-> prompt]
    /\ IF ~ chat_active[s]
       THEN UNCHANGED << file, secrets, session_vars, committed >>
       ELSE LET knowledge_base == load_knowledge_base(file)
                questions == [i \in DOMAIN knowledge_base.questions |->
                                 knowledge_base.questions[i].question]
                user == Message("user", "", prompt, "")
            IN  /\ first_interaction' = [first_interaction EXCEPT ![s] = FALSE]
                /\ UNCHANGED << file, secrets, awaiting_answer, authenticated,
                                committed >>
                /\ IF IsQuit(prompt)
                   THEN /\ messages' = [messages EXCEPT ![s] =
                              @ \o << user,
                                      Message("assistant", MSG_goodbye,
                                              EmptyStr, "") >>]
                        /\ chat_active' = [chat_active EXCEPT ![s] = FALSE]
                        /\ UNCHANGED current_question
                   ELSE
                   IF ~ awaiting_answer[s]
                   THEN LET best_match == find_best_match(prompt, questions)
                        IN  IF best_match /= None /\ best_match /= EmptyStr
                            THEN /\ messages' = [messages EXCEPT ![s] =
                                       @ \o << user,
                                               Message("assistant", "",
                                                   get_answer(best_match,
                                                       knowledge_base),
                                                   "") >>]
                                 /\ UNCHANGED << chat_active, current_question >>
                            ELSE /\ messages' = [messages EXCEPT ![s] =
                                       @ \o << user,
                                               Message("assistant",
                                                   MSG_unknown, EmptyStr,
                                                   "") >>]
                                 /\ current_question' =
                                       [current_question EXCEPT ![s] = PendingOf(prompt)]
                                 /\ UNCHANGED chat_active
                   ELSE /\ messages' = [messages EXCEPT ![s] = Append(@, user)]
                        /\ UNCHANGED << chat_active, current_question >>

\* mutant: the button is shown to every actor
Logout_unauth(s) ==
    /\ NotRunning(s)
    /\ UNCHANGED run_vars
    /\ event' = [op |-> "logout", s |-> s, text |-> EmptyStr]
    /\ UNCHANGED << file, secrets, chat_active, messages, awaiting_answer,
                    first_interaction, committed >>
    /\ authenticated' = [authenticated EXCEPT ![s] = FALSE]
    /\ current_question' = [current_question EXCEPT ![s] = EmptyStr]

\* mutant: the transcript is emptied on logout
Logout_clears(s) ==
    /\ NotRunning(s)
    /\ UNCHANGED run_vars
    /\ event' = [op |-> "logout", s |-> s, text |-> EmptyStr]
    /\ UNCHANGED << file, secrets, chat_active, awaiting_answer,
                    first_interaction, committed >>
    /\ IF authenticated[s]
       THEN /\ authenticated' = [authenticated EXCEPT ![s] = FALSE]
            /\ current_question' = [current_question EXCEPT ![s] = EmptyStr]
            /\ messages' = [messages EXCEPT ![s] = << >>]
       ELSE UNCHANGED << authenticated, current_question, messages >>

(***************************************************************************)
(* The Logout button of the sidebar.                                       *)
(***************************************************************************)
Logout(s) ==
    /\ NotRunning(s)
    /\ UNCHANGED run_vars
    /\ event' = [op |-> "logout", s |-> s, text |-> EmptyStr]
    /\ UNCHANGED << file, secrets, chat_active, messages, awaiting_answer,
                    first_interaction, committed >>
    /\ IF authenticated[s]
       THEN /\ authenticated' = [authenticated EXCEPT ![s] = FALSE]
            /\ current_question' = [current_question EXCEPT ![s] = EmptyStr]
       ELSE UNCHANGED << authenticated, current_question >>

(***************************************************************************)
(* The Authenticate button of check_password().                            *)
(***************************************************************************)
Authenticate(s, password) ==
    /\ NotRunning(s)
    /\ UNCHANGED run_vars
    /\ event' = [op |-> "authenticate", s |-> s, text |-> password]
    /\ UNCHANGED << file, secrets, chat_active, messages, awaiting_answer,
                    current_question, first_interaction, committed >>
    /\ IF /\ chat_active[s]
          /\ current_question[s] /= EmptyStr
          /\ ~ authenticated[s]
          /\ secrets.configured
          /\ password = secrets.TRAINER_PASSWORD
       THEN authenticated' = [authenticated EXCEPT ![s] = TRUE]
       ELSE UNCHANGED authenticated

(***************************************************************************)
(* The "Train the bot" button of the training form.                        *)
(***************************************************************************)
TrainSubmit(s, new_answer) ==
    /\ TrainingFormShown(s) /\ SubmitAccepted(new_answer) =>
          /\ Room(s, 1)
          /\ Len(load_knowledge_base(file).questions) < MaxKB
    /\ NotRunning(s)
    /\ UNCHANGED run_vars
    /\ event' = [op |-> "submit", s |-> s, text |-> new_answer]
    /\ UNCHANGED << secrets, chat_active, first_interaction, authenticated >>
    /\ IF TrainingFormShown(s) /\ SubmitAccepted(new_answer)
       THEN LET knowledge_base == load_knowledge_base(file)
                appended == TrainedKB(knowledge_base, current_question[s],
                                      new_answer)
            IN  /\ file' = save_knowledge_base(appended)
                /\ messages' = [messages EXCEPT ![s] =
                      Append(@, Message("assistant", MSG_learned,
                                        current_question[s], "'"))]
                /\ awaiting_answer' =
                      [awaiting_answer EXCEPT ![s] = AwaitingAfterTraining]
                /\ current_question' = [current_question EXCEPT ![s] = EmptyStr]
                /\ committed' = committed \cup
                      { [question |-> current_question[s],
                         answer |-> new_answer,
                         index |-> Len(appended.questions),
                         s |-> s] }
       ELSE UNCHANGED << file, messages, awaiting_answer, current_question,
                         committed >>

\* mutant: Cancel leaves the pending question in place
TrainCancel_keeps(s, new_answer) ==
    /\ TrainingFormShown(s) => Room(s, 1)
    /\ NotRunning(s)
    /\ UNCHANGED run_vars
    /\ event' = [op |-> "cancel", s |-> s, text |-> new_answer]
    /\ UNCHANGED << file, secrets, chat_active, awaiting_answer,
                    first_interaction, authenticated, committed,
                    current_question >>
    /\ IF TrainingFormShown(s)
       THEN messages' = [messages EXCEPT ![s] =
                  Append(@, Message("assistant", MSG_continue, EmptyStr, ""))]
       ELSE UNCHANGED messages

(***************************************************************************)
(* The Cancel button of the training form.                                 *)
(***************************************************************************)
TrainCancel(s, new_answer) ==
    /\ TrainingFormShown(s) => Room(s, 1)
    /\ NotRunning(s)
    /\ UNCHANGED run_vars
    /\ event' = [op |-> "cancel", s |-> s, text |-> new_answer]
    /\ UNCHANGED << file, secrets, chat_active, first_interaction,
                    authenticated, committed >>
    /\ IF TrainingFormShown(s)
       THEN /\ messages' = [messages EXCEPT ![s] =
                  Append(@, Message("assistant", MSG_continue, EmptyStr, ""))]
            /\ awaiting_answer' =
                  [awaiting_answer EXCEPT ![s] = AwaitingAfterTraining]
            /\ current_question' = [current_question EXCEPT ![s] = EmptyStr]
       ELSE UNCHANGED << messages, awaiting_answer, current_question >>

(***************************************************************************)
(* The "Train the bot" button when save_knowledge_base raises: either      *)
(* open(file_path, "w") fails and the file is untouched, or the file has   *)
(* been truncated by open and json.dump stops after k whole entries, which *)
(* leaves text that json.load rejects.  The exception leaves display_chat  *)
(* at line 208, before any session field is assigned.                      *)
(***************************************************************************)
PartialFile(data, k) ==
    [state |-> "corrupt", data |-> [questions |-> SubSeq(data.questions, 1, k)]]

\* mutant: the confirmation and the clearing precede the save
TrainSubmitFails_confirmed(s, new_answer, opened, k) ==
    /\ NotRunning(s)
    /\ UNCHANGED run_vars
    /\ TrainingFormShown(s) /\ SubmitAccepted(new_answer)
    /\ Room(s, 1)
    /\ event' = [op |-> "submit_failed", s |-> s, text |-> new_answer]
    /\ LET knowledge_base == load_knowledge_base(file)
           appended == TrainedKB(knowledge_base, current_question[s],
                                 new_answer)
       IN  /\ k <= Len(appended.questions)
           /\ ~ opened => k = 0
           /\ file' = IF opened THEN PartialFile(appended, k) ELSE file
    /\ messages' = [messages EXCEPT ![s] =
          Append(@, Message("assistant", MSG_learned, current_question[s],
                            "'"))]
    /\ current_question' = [current_question EXCEPT ![s] = EmptyStr]
    /\ UNCHANGED << secrets, chat_active, awaiting_answer, first_interaction,
                    authenticated, committed >>

TrainSubmitFails(s, new_answer, opened, k) ==
    /\ NotRunning(s)
    /\ UNCHANGED run_vars
    /\ TrainingFormShown(s) /\ SubmitAccepted(new_answer)
    /\ event' = [op |-> "submit_failed", s |-> s, text |-> new_answer]
    /\ LET knowledge_base == load_knowledge_base(file)
           appended == TrainedKB(knowledge_base, current_question[s],
                                 new_answer)
       IN  /\ k <= Len(appended.questions)
           /\ ~ opened => k = 0
           /\ file' = IF opened THEN PartialFile(appended, k) ELSE file
    /\ UNCHANGED << secrets, session_vars, committed >>

Next ==
    \/ \E s \in Sessions, prompt \in Prompts : Utterance(s, prompt)
    \/ \E s \in Sessions : Logout(s)
    \/ \E s \in Sessions, password \in Passwords : Authenticate(s, password)
    \/ \E s \in Sessions, new_answer \in Answers : TrainSubmit(s, new_answer)
    \/ \E s \in Sessions, new_answer \in Answers : TrainCancel(s, new_answer)

Spec == Init /\ [][Next]_vars

(***************************************************************************)
(* Two sessions on one store, each run from its load to its save without   *)
(* a run of the other session in between.                                  *)
(***************************************************************************)
SharedStores ==
    { FileMissing,
      save_knowledge_base([questions |-> << Entry(STR_HI, STR_A1) >>]) }

ConfiguredSecrets == { sec \in InitialSecrets : sec.configured }

InitTwo == InitWith({1, 2}, SharedStores, ConfiguredSecrets)

SpecTwo == InitTwo /\ [][Next]_vars

(***************************************************************************)
(* The "Train the bot" run of a session in two steps, so that the runs of  *)
(* two sessions (two script threads of the server) can overlap: the load   *)
(* of line 158 with the test of line 202, then lines 204-216.              *)
(***************************************************************************)
LoadForSubmit(s, new_answer) ==
    /\ NotRunning(s)
    /\ TrainingFormShown(s) /\ SubmitAccepted(new_answer)
    /\ Room(s, 1)
    /\ Len(load_knowledge_base(file).questions) < MaxKB
    /\ run' = [run EXCEPT ![s] =
          [pc |-> "loaded",
           knowledge_base |-> load_knowledge_base(file),
           new_answer |-> new_answer]]
    /\ overlapped' = (overlapped \/ InFlight /= {})
    /\ event' = [op |-> "submit_load", s |-> s, text |-> new_answer]
    /\ UNCHANGED << file, secrets, session_vars, committed >>

SaveForSubmit(s) ==
    /\ run[s].pc = "loaded"
    /\ LET appended == TrainedKB(run[s].knowledge_base, current_question[s],
                                 run[s].new_answer)
       IN  /\ file' = save_knowledge_base(appended)
           /\ messages' = [messages EXCEPT ![s] =
                 Append(@, Message("assistant", MSG_learned,
                                   current_question[s], "'"))]
           /\ awaiting_answer' =
                 [awaiting_answer EXCEPT ![s] = AwaitingAfterTraining]
           /\ current_question' = [current_question EXCEPT ![s] = EmptyStr]
           /\ committed' = committed \cup
                 { [question |-> current_question[s],
                    answer |-> run[s].new_answer,
                    index |-> Len(appended.questions),
                    s |-> s] }
    /\ run' = [run EXCEPT ![s] = Idle]
    /\ event' = [op |-> "submit", s |-> s, text |-> run[s].new_answer]
    /\ UNCHANGED << secrets, chat_active, first_interaction, authenticated,
                    overlapped >>

NextOverlap ==
    \/ \E s \in Sessions, prompt \in Prompts : Utterance(s, prompt)
    \/ \E s \in Sessions : Logout(s)
    \/ \E s \in Sessions, password \in Passwords : Authenticate(s, password)
    \/ \E s \in Sessions, new_answer \in Answers : TrainCancel(s, new_answer)
    \/ \E s \in Sessions, new_answer \in Answers : LoadForSubmit(s, new_answer)
    \/ \E s \in Sessions : SaveForSubmit(s)

SpecOverlap == InitTwo /\ [][NextOverlap]_vars

\* The runs of one session, with saves that can fail.
NextFail ==
    \/ Next
    \/ \E s \in Sessions, new_answer \in Answers, opened \in BOOLEAN,
          k \in 0..(MaxKB + 1) :
          TrainSubmitFails(s, new_answer, opened, k)

SpecFail == Init /\ [][NextFail]_vars

(***************************************************************************)
(* The phase of a session, read off the fields the code branches on:       *)
(* Ended when chat_active is false (line 153), AwaitingTraining when a     *)
(* question is pending (line 195), Active otherwise.                       *)
(***************************************************************************)
Phase(s) ==
    IF ~ chat_active[s] THEN "Ended"
    ELSE IF current_question[s] /= EmptyStr THEN "AwaitingTraining"
    ELSE "Active"

PendingSet(s) == current_question[s] /= EmptyStr

\* The run of the step is an interaction op of session s.
Did(op, s) == event'.op = op /\ event'.s = s

LastMessage(s) == messages[s][Len(messages[s])]

StoredQuestions == load_knowledge_base(file).questions

(***************************************************************************)
(* C1: in every reachable state, a session's pending question is set if    *)
(* and only if its phase is AwaitingTraining.                              *)
(***************************************************************************)
C1_PendingIffAwaitingTraining ==
    \A s \in Sessions : PendingSet(s) <=> Phase(s) = "AwaitingTraining"

(***************************************************************************)
(* C2: a training submit or cancel by an actor that is not authenticated   *)
(* changes neither the phase, nor the pending question, nor the persisted  *)
(* knowledge base, and commits no pair.                                    *)
(***************************************************************************)
C2_UnauthorizedTrainingNoEffect ==
    [][\A s \in Sessions :
          (Did("submit", s) \/ Did("cancel", s)) /\ ~ authenticated[s] =>
              /\ Phase(s)' = Phase(s)
              /\ current_question'[s] = current_question[s]
              /\ file' = file
              /\ committed' = committed]_vars

C2_Witness ==
    \E s \in Sessions :
        /\ event.op = "submit" /\ event.s = s /\ event.text /= EmptyStr
        /\ ~ authenticated[s]
        /\ Phase(s) = "AwaitingTraining"

(***************************************************************************)
(* C3: the persisted knowledge base changes only in a training submit by   *)
(* an authenticated actor with a pending question and a non-empty answer.  *)
(***************************************************************************)
C3_StoreWrittenOnlyByCommit ==
    [][file' /= file =>
          \E s \in Sessions :
              /\ Did("submit", s)
              /\ event'.text /= EmptyStr
              /\ authenticated[s]
              /\ chat_active[s]
              /\ PendingSet(s)]_vars

C3_Witness ==
    /\ committed /= {}
    /\ event.op = "submit" /\ event.text = EmptyStr
    /\ authenticated[event.s] /\ ~ PendingSet(event.s)

(***************************************************************************)
(* C4: once a session has ended, no later interaction of that session      *)
(* changes its phase, its transcript, its pending question or the          *)
(* persisted knowledge base.                                               *)
(***************************************************************************)
C4_EndedAbsorbing ==
    [][\A s \in Sessions :
          ~ chat_active[s] /\ event'.s = s =>
              /\ chat_active'[s] = chat_active[s]
              /\ messages'[s] = messages[s]
              /\ current_question'[s] = current_question[s]
              /\ file' = file]_vars

(***************************************************************************)
(* C5: a training submit with a non-empty answer a by an authenticated     *)
(* actor whose session awaits training for question q makes the persisted  *)
(* knowledge base the one loaded in that run with the entry (q, a)         *)
(* appended at the end, appends one confirmation message, clears the       *)
(* pending question and makes the phase Active; a reload holds (q, a).     *)
(***************************************************************************)
C5_CommitAppendsPair ==
    [][\A s \in Sessions :
          /\ Did("submit", s)
          /\ event'.text /= EmptyStr
          /\ authenticated[s]
          /\ Phase(s) = "AwaitingTraining"
          => LET q == current_question[s]
                 a == event'.text
                 old == IF file.state = "valid" THEN file.data.questions
                        ELSE << >>
             IN  /\ file'.state = "valid"
                 /\ file'.data.questions = old \o << Entry(q, a) >>
                 /\ messages'[s] =
                       messages[s] \o
                       << Message("assistant", MSG_learned, q, "'") >>
                 /\ current_question'[s] = EmptyStr
                 /\ Phase(s)' = "Active"
                 /\ \E i \in DOMAIN StoredQuestions' :
                       StoredQuestions'[i] = Entry(q, a)]_vars

C5_Witness ==
    \E s \in Sessions :
        /\ event.op = "submit" /\ event.s = s /\ event.text /= EmptyStr
        /\ file.state = "valid"
        /\ Len(file.data.questions) = 2
        /\ file.data.questions[2].answer = event.text
        /\ LastMessage(s).content[1] = MSG_learned
        /\ Phase(s) = "Active"

(***************************************************************************)
(* C6: a training cancel by an authenticated actor whose session awaits    *)
(* training makes the phase Active, clears the pending question, appends   *)
(* exactly one 'continuing' assistant message and leaves the persisted     *)
(* knowledge base unchanged.                                               *)
(***************************************************************************)
C6_CancelClearsPending ==
    [][\A s \in Sessions :
          /\ Did("cancel", s)
          /\ authenticated[s]
          /\ Phase(s) = "AwaitingTraining"
          => /\ Phase(s)' = "Active"
             /\ current_question'[s] = EmptyStr
             /\ messages'[s] =
                   messages[s] \o
                   << Message("assistant", MSG_continue, EmptyStr, "") >>
             /\ file' = file
             /\ committed' = committed]_vars

C6_Witness ==
    \E s \in Sessions :
        /\ event.op = "cancel" /\ event.s = s /\ event.text /= EmptyStr
        /\ authenticated[s]
        /\ LastMessage(s).content[1] = MSG_continue
        /\ Phase(s) = "Active"

(***************************************************************************)
(* C7: a training submit with an empty answer by an authenticated actor    *)
(* whose session awaits training changes nothing: the session's fields and *)
(* the persisted knowledge base stay as they are and the training form is  *)
(* still shown.                                                            *)
(***************************************************************************)
C7_EmptyAnswerNoChange ==
    [][\A s \in Sessions :
          /\ Did("submit", s)
          /\ event'.text = EmptyStr
          /\ authenticated[s]
          /\ Phase(s) = "AwaitingTraining"
          => /\ Phase(s)' = "AwaitingTraining"
             /\ current_question'[s] = current_question[s]
             /\ messages'[s] = messages[s]
             /\ authenticated'[s]
             /\ file' = file
             /\ committed' = committed
             /\ TrainingFormShown(s)']_vars

C7_Witness ==
    \E s \in Sessions :
        /\ event.op = "submit" /\ event.s = s /\ event.text = EmptyStr
        /\ authenticated[s]
        /\ Phase(s) = "AwaitingTraining"

(***************************************************************************)
(* C8: from phase Active, an utterance u that is not the termination       *)
(* keyword and to which no known question has similarity >= 0.6 appends    *)
(* the user message and one 'unknown' assistant message, records u in its  *)
(* original casing as the pending question, makes the phase                *)
(* AwaitingTraining and leaves the persisted knowledge base as it is; with *)
(* an empty knowledge base every non-terminating utterance does so.        *)
(***************************************************************************)
SomeSimilar(u) ==
    \E i \in DOMAIN StoredQuestions :
        LET r == ratio(StoredQuestions[i].question, u)
        IN  10 * r[1] >= 6 * r[2]

UnknownOutcome(s, u) ==
    /\ messages'[s] =
          messages[s] \o
          << Message("user", "", u, ""),
             Message("assistant", MSG_unknown, EmptyStr, "") >>
    /\ current_question'[s] = u
    /\ Phase(s)' = "AwaitingTraining"
    /\ file' = file
    /\ committed' = committed

C8_UnmatchedUtterance ==
    [][\A s \in Sessions :
          /\ Did("utterance", s)
          /\ Phase(s) = "Active"
          /\ lower(event'.text) /= STR_quit
          /\ (~ SomeSimilar(event'.text) \/ StoredQuestions = << >>)
          => UnknownOutcome(s, event'.text)]_vars

C8_Witness ==
    \E s \in Sessions :
        /\ event.op = "utterance" /\ event.s = s
        /\ event.text = STR_HI
        /\ current_question[s] = STR_HI
        /\ StoredQuestions /= << >>
        /\ Len(messages[s]) > 2
        /\ LastMessage(s).content[1] = MSG_unknown

(***************************************************************************)
(* The known questions that score best against u: similarity >= 0.6 and no *)
(* other known question with a greater (similarity, text).                 *)
(***************************************************************************)
Similar(i, u) ==
    LET r == ratio(StoredQuestions[i].question, u)
    IN  10 * r[1] >= 6 * r[2]

Beats(k, i, u) ==
    LET rk == ratio(StoredQuestions[k].question, u)
        ri == ratio(StoredQuestions[i].question, u)
    IN  \/ rk[1] * ri[2] > ri[1] * rk[2]
        \/ /\ rk[1] * ri[2] = ri[1] * rk[2]
           /\ StrLess(StoredQuestions[i].question, StoredQuestions[k].question)

BestMatching(u) ==
    { i \in DOMAIN StoredQuestions :
        /\ Similar(i, u)
        /\ \A k \in DOMAIN StoredQuestions : Similar(k, u) => ~ Beats(k, i, u) }

FirstSameQuestion(q) ==
    CHOOSE j \in DOMAIN StoredQuestions :
        /\ lower(StoredQuestions[j].question) = lower(q)
        /\ \A k \in 1..(j - 1) : lower(StoredQuestions[k].question) /= lower(q)

MatchedUtterance(s) ==
    /\ Did("utterance", s)
    /\ Phase(s) = "Active"
    /\ lower(event'.text) /= STR_quit
    /\ SomeSimilar(event'.text)

Answered(s, u, answer) ==
    /\ messages'[s] =
          messages[s] \o
          << Message("user", "", u, ""), Message("assistant", "", answer, "") >>
    /\ answer /= None
    /\ Phase(s)' = "Active"
    /\ current_question'[s] = current_question[s]
    /\ file' = file
    /\ committed' = committed

(***************************************************************************)
(* C9 as stated: from phase Active, an utterance that is not the           *)
(* termination keyword and has a known question of similarity >= 0.6 is    *)
(* answered with the answer stored in the entry of the best-matching known *)
(* question, and phase, pending question and knowledge base stay.          *)
(***************************************************************************)
C9_AnswerOfBestMatchEntry ==
    [][\A s \in Sessions :
          MatchedUtterance(s) =>
              \E i \in BestMatching(event'.text) :
                  \E e \in DOMAIN StoredQuestions :
                      /\ StoredQuestions[e].question =
                            StoredQuestions[i].question
                      /\ Answered(s, event'.text, StoredQuestions[e].answer)]_vars

(***************************************************************************)
(* C9 amended: the utterance is answered with the answer of the first      *)
(* entry, in knowledge-base order, whose question equals the best-matching *)
(* known question up to letter casing; phase, pending question and         *)
(* knowledge base stay.                                                    *)
(***************************************************************************)
C9_AnswerOfFirstSameQuestion ==
    [][\A s \in Sessions :
          MatchedUtterance(s) =>
              \E i \in BestMatching(event'.text) :
                  Answered(s, event'.text,
                      StoredQuestions[
                          FirstSameQuestion(StoredQuestions[i].question)
                      ].answer)]_vars

C9_Witness ==
    \E s \in Sessions :
        /\ event.op = "utterance" /\ event.s = s
        /\ event.text = STR_hi
        /\ Len(StoredQuestions) = 2
        /\ StoredQuestions[1] = Entry(STR_HI, STR_A1)
        /\ StoredQuestions[2] = Entry(STR_hi, STR_A2)
        /\ LastMessage(s) = Message("assistant", "", STR_A1, "")
        /\ Phase(s) = "Active"

(***************************************************************************)
(* The texts equal to q up to letter casing.                               *)
(***************************************************************************)
CaseVariants(q) ==
    { t \in Prompts \cup { q, lower(q) } : lower(t) = lower(q) }

(***************************************************************************)
(* C10 as stated: for every pair (q, a) committed by training, a lookup of *)
(* a text equal to q up to letter casing in the current knowledge base     *)
(* returns a.                                                              *)
(***************************************************************************)
C10_LookupReturnsCommitted ==
    \A c \in committed :
        \A t \in CaseVariants(c.question) :
            get_answer(t, load_knowledge_base(file)) = c.answer

(***************************************************************************)
(* C10 amended: the lookup returns a provided no entry before the          *)
(* committed one has a question equal to q up to letter casing (entries    *)
(* gained later do not matter); otherwise it returns the answer of the     *)
(* first such entry.                                                       *)
(***************************************************************************)
C10_LookupReturnsFirstCommitted ==
    \A c \in committed :
        \A t \in CaseVariants(c.question) :
            LET found == get_answer(t, load_knowledge_base(file))
            IN  /\ found = StoredQuestions[FirstSameQuestion(c.question)].answer
                /\ (\A j \in 1..(c.index - 1) :
                       lower(StoredQuestions[j].question) /= lower(c.question))
                   => found = c.answer

C10_Witness ==
    \E c \in committed :
        /\ c.index = 1
        /\ Len(StoredQuestions) = 2
        /\ StoredQuestions[2].question /= c.question
        /\ lower(StoredQuestions[2].question) = lower(c.question)
        /\ StoredQuestions[2].answer /= c.answer
        /\ get_answer(StoredQuestions[2].question, load_knowledge_base(file))
              = c.answer

(***************************************************************************)
(* C11: from phase Active, an utterance equal to "quit" in any letter      *)
(* casing appends the user message and one farewell assistant message and  *)
(* makes the phase Ended, also when a known question is similar to it (no  *)
(* answer is looked up); the persisted knowledge base is unchanged.        *)
(***************************************************************************)
C11_QuitEndsSession ==
    [][\A s \in Sessions :
          /\ Did("utterance", s)
          /\ Phase(s) = "Active"
          /\ lower(event'.text) = STR_quit
          => /\ messages'[s] =
                   messages[s] \o
                   << Message("user", "", event'.text, ""),
                      Message("assistant", MSG_goodbye, EmptyStr, "") >>
             /\ Phase(s)' = "Ended"
             /\ current_question'[s] = current_question[s]
             /\ file' = file
             /\ committed' = committed]_vars

C11_Witness ==
    \E s \in Sessions :
        /\ event.op = "utterance" /\ event.s = s
        /\ event.text = STR_Quit
        /\ SomeSimilar(STR_Quit)
        /\ Len(messages[s]) = 2
        /\ LastMessage(s).content[1] = MSG_goodbye
        /\ Phase(s) = "Ended"

(***************************************************************************)
(* C12: when the write of a training commit fails, the session is left as  *)
(* it was: no confirmation is appended, the pending question stays set,    *)
(* the phase stays AwaitingTraining and the training form is still shown,  *)
(* so the commit can be retried.                                           *)
(***************************************************************************)
C12_FailedSaveKeepsSession ==
    [][\A s \in Sessions :
          Did("submit_failed", s) =>
              /\ messages'[s] = messages[s]
              /\ current_question'[s] = current_question[s]
              /\ PendingSet(s)'
              /\ Phase(s) = "AwaitingTraining"
              /\ Phase(s)' = "AwaitingTraining"
              /\ authenticated'[s] = authenticated[s]
              /\ awaiting_answer'[s] = awaiting_answer[s]
              /\ committed' = committed
              /\ TrainingFormShown(s)']_vars

C12_Witness ==
    \E s \in Sessions :
        /\ event.op = "submit_failed" /\ event.s = s
        /\ file.state = "corrupt"
        /\ Len(file.data.questions) = 1
        /\ Phase(s) = "AwaitingTraining"
        /\ LastMessage(s).content[1] = MSG_unknown

(***************************************************************************)
(* C13: a save that fails, also after the file has been opened for         *)
(* writing, leaves the medium with the previous knowledge base: a load     *)
(* after the failed save returns what a load before it returned.           *)
(***************************************************************************)
C13_FailedSaveKeepsStore ==
    [][\A s \in Sessions :
          Did("submit_failed", s) =>
              load_knowledge_base(file') = load_knowledge_base(file)]_vars

(***************************************************************************)
(* C14: in a run that finds the medium absent or unparseable, an utterance *)
(* that is not the termination keyword gets the 'unknown' outcome of an    *)
(* empty knowledge base, and a training commit persists a store holding    *)
(* exactly the new pair and is confirmed.                                  *)
(***************************************************************************)
C14_MissingOrCorruptIsEmpty ==
    [][\A s \in Sessions :
          file.state \in { "missing", "corrupt" } =>
              /\ ( /\ Did("utterance", s)
                   /\ chat_active[s]
                   /\ lower(event'.text) /= STR_quit )
                 => UnknownOutcome(s, event'.text)
              /\ ( /\ Did("submit", s)
                   /\ event'.text /= EmptyStr
                   /\ authenticated[s]
                   /\ Phase(s) = "AwaitingTraining" )
                 => /\ file' =
                          [state |-> "valid",
                           data |-> [questions |->
                              << Entry(current_question[s], event'.text) >>]]
                    /\ messages'[s] =
                          messages[s] \o
                          << Message("assistant", MSG_learned,
                                     current_question[s], "'") >>
                    /\ Phase(s)' = "Active"]_vars

C14_Witness ==
    /\ event.op = "submit" /\ event.text /= EmptyStr
    /\ Cardinality(committed) = 2
    /\ file.state = "valid"
    /\ Len(file.data.questions) = 1
    /\ LastMessage(event.s).content[1] = MSG_learned

(***************************************************************************)
(* A committed pair is in the persisted knowledge base, at the place where *)
(* its commit put it.                                                      *)
(***************************************************************************)
StoredAt(c) ==
    /\ c.index \in DOMAIN StoredQuestions
    /\ StoredQuestions[c.index] = Entry(c.question, c.answer)

Replied(s, u, reply) ==
    messages'[s] = messages[s] \o << Message("user", "", u, ""), reply >>

(***************************************************************************)
(* C15: with two sessions on one store and runs that do not overlap, every *)
(* pair committed by any session is in the knowledge base that the next    *)
(* run of every session loads, and an utterance of any session is matched  *)
(* against that knowledge base: it is answered from the persisted entries  *)
(* when one of them is similar, and is unknown otherwise.                  *)
(***************************************************************************)
C15_EveryRunSeesPersisted ==
    /\ [](\A c \in committed : StoredAt(c))
    /\ [][\A s \in Sessions :
             /\ Did("utterance", s)
             /\ chat_active[s]
             /\ lower(event'.text) /= STR_quit
             => IF SomeSimilar(event'.text)
                THEN \E i \in BestMatching(event'.text) :
                        Replied(s, event'.text,
                            Message("assistant", "",
                                StoredQuestions[FirstSameQuestion(
                                    StoredQuestions[i].question)].answer,
                                ""))
                ELSE Replied(s, event'.text,
                        Message("assistant", MSG_unknown, EmptyStr, ""))]_vars

C15_Witness ==
    \E s \in Sessions, c \in committed :
        /\ c.s /= s
        /\ c.question = STR_hi
        /\ StoredAt(c)
        /\ event.op = "utterance" /\ event.s = s
        /\ event.text = STR_hit
        /\ Len(messages[s]) = 2
        /\ LastMessage(s) = Message("assistant", "", c.answer, "")

(***************************************************************************)
(* C16: when the runs of two sessions overlap (both load before either     *)
(* saves), both commits can be confirmed while the persisted knowledge     *)
(* base holds only one of the two pairs; a committed pair is missing from  *)
(* the store only if runs overlapped.                                      *)
(***************************************************************************)
C16_LostOnlyWhenOverlapped ==
    (\E c \in committed : ~ StoredAt(c)) => overlapped

C16_Witness ==
    /\ overlapped
    /\ \A s \in Sessions :
          /\ messages[s] /= << >>
          /\ LastMessage(s).content[1] = MSG_learned
          /\ \E c \in committed : c.s = s
    /\ Len(StoredQuestions) = 1
    /\ \E c \in committed : ~ StoredAt(c)
    /\ \E c \in committed : StoredAt(c)

LeavesTraining(s) ==
    \/ Phase(s) = "AwaitingTraining" /\ Phase(s)' = "Active"
    \/ PendingSet(s) /\ ~ PendingSet(s)'

ByTraining(s) ==
    /\ authenticated[s]
    /\ \/ /\ Did("submit", s)
          /\ event'.text /= EmptyStr
          /\ messages'[s] =
                messages[s] \o
                << Message("assistant", MSG_learned, current_question[s],
                           "'") >>
       \/ /\ Did("cancel", s)
          /\ messages'[s] =
                messages[s] \o
                << Message("assistant", MSG_continue, EmptyStr, "") >>

ByLogout(s) ==
    /\ authenticated[s]
    /\ Did("logout", s)
    /\ ~ authenticated'[s]
    /\ messages'[s] = messages[s]

(***************************************************************************)
(* C17 as stated: a session leaves AwaitingTraining for Active, or has its *)
(* pending question cleared, only in a non-empty training submit or a      *)
(* cancel of an authenticated actor, and that step appends exactly one     *)
(* assistant message.                                                      *)
(***************************************************************************)
C17_LeavesOnlyByTraining ==
    [][\A s \in Sessions : LeavesTraining(s) => ByTraining(s)]_vars

(***************************************************************************)
(* C17 amended: ... only in a non-empty training submit or a cancel of an  *)
(* authenticated actor, each appending exactly one assistant message, or   *)
(* in a logout of an authenticated actor, which appends no message.        *)
(***************************************************************************)
C17_LeavesByTrainingOrLogout ==
    [][\A s \in Sessions :
          LeavesTraining(s) => ByTraining(s) \/ ByLogout(s)]_vars

C17_Witness ==
    \E s \in Sessions :
        /\ event.op = "logout" /\ event.s = s
        /\ ~ authenticated[s]
        /\ Phase(s) = "Active"
        /\ messages[s] /= << >>
        /\ LastMessage(s).content[1] = MSG_unknown

(***************************************************************************)
(* C18: the awaiting_answer flag is false in every reachable state, and    *)
(* every utterance of a session that has not ended, other than the         *)
(* termination keyword, is matched against the knowledge base and gets     *)
(* exactly one assistant reply, in phase Active and AwaitingTraining       *)
(* alike.                                                                  *)
(***************************************************************************)
C18_FlagNeverSet ==
    /\ [](\A s \in Sessions : ~ awaiting_answer[s])
    /\ [][\A s \in Sessions :
             /\ Did("utterance", s)
             /\ chat_active[s]
             /\ lower(event'.text) /= STR_quit
             => /\ Len(messages'[s]) = Len(messages[s]) + 2
                /\ IF SomeSimilar(event'.text)
                   THEN \E i \in DOMAIN StoredQuestions :
                           /\ Similar(i, event'.text)
                           /\ Replied(s, event'.text,
                                 Message("assistant", "",
                                     StoredQuestions[FirstSameQuestion(
                                         StoredQuestions[i].question)].answer,
                                     ""))
                   ELSE Replied(s, event'.text,
                           Message("assistant", MSG_unknown, EmptyStr,
                                   ""))]_vars

C18_Witness ==
    \E s \in Sessions :
        /\ event.op = "utterance" /\ event.s = s
        /\ Phase(s) = "AwaitingTraining"
        /\ current_question[s] /= event.text
        /\ Len(messages[s]) >= 4
        /\ LastMessage(s).role = "assistant"
        /\ LastMessage(s).content[1] = ""
        /\ LastMessage(s).content[2] /= None

(***************************************************************************)
(* The text of the most recent utterance of a session that was answered    *)
(* 'unknown'.                                                              *)
(***************************************************************************)
UnknownReplies(s) ==
    { i \in 2..Len(messages[s]) :
        /\ messages[s][i].role = "assistant"
        /\ messages[s][i].content[1] = MSG_unknown }

LastUnmatched(s) ==
    LET i == CHOOSE k \in UnknownReplies(s) :
                \A m \in UnknownReplies(s) : m <= k
    IN  messages[s][i - 1].content[2]

(***************************************************************************)
(* C19: while a question is pending, a further unmatched utterance         *)
(* replaces it and a matched utterance leaves it as it is; the question of *)
(* every pair a session commits is, in its original casing, the text of    *)
(* that session's most recent unmatched utterance.                         *)
(***************************************************************************)
C19_CommitUsesLatestPending ==
    [][\A s \in Sessions :
          /\ ( /\ Did("utterance", s)
               /\ Phase(s) = "AwaitingTraining"
               /\ lower(event'.text) /= STR_quit )
             => current_question'[s] =
                   IF SomeSimilar(event'.text)
                   THEN current_question[s]
                   ELSE event'.text
          /\ ( Did("submit", s) /\ file' /= file )
             => /\ UnknownReplies(s) /= {}
                /\ StoredQuestions'[Len(StoredQuestions')].question =
                      LastUnmatched(s)
                /\ \A c \in committed' \ committed :
                      c.question = LastUnmatched(s)]_vars

C19_Witness ==
    \E s \in Sessions :
        /\ event.op = "submit" /\ event.s = s
        /\ Len(messages[s]) = 5
        /\ messages[s][1].content[2] = STR_hi
        /\ messages[s][2].content[1] = MSG_unknown
        /\ messages[s][3].content[2] = STR_HI
        /\ messages[s][4].content[1] = MSG_unknown
        /\ messages[s][5] = Message("assistant", MSG_learned, STR_HI, "'")
        /\ StoredQuestions = << Entry(STR_HI, event.text) >>

(***************************************************************************)
(* C20: the transcript of a session only grows at its end, its first       *)
(* message is a user message, and every user message is immediately        *)
(* followed by an assistant message.                                       *)
(***************************************************************************)
WellFormed(s) ==
    /\ messages[s] /= << >> => messages[s][1].role = "user"
    /\ \A i \in 1..Len(messages[s]) :
          messages[s][i].role = "user" =>
              /\ i < Len(messages[s])
              /\ messages[s][i + 1].role = "assistant"

C20_TranscriptAppendOnly ==
    /\ [](\A s \in Sessions : WellFormed(s))
    /\ [][\A s \in Sessions :
             /\ Len(messages'[s]) >= Len(messages[s])
             /\ SubSeq(messages'[s], 1, Len(messages[s])) = messages[s]]_vars

C20_Witness ==
    \E s \in Sessions :
        /\ Len(messages[s]) = 6
        /\ messages[s][3].content[1] = MSG_continue
        /\ messages[s][6].content[1] = MSG_learned
        /\ event.op = "logout"

====
